---- MODULE Spec2Model ----
(***************************************************************************)
(* Model of the JNI bridge app/src/main/jni/whisper/jni.c between          *)
(* WhisperCppLib.kt and the whisper.cpp engine.                            *)
(*                                                                         *)
(* The bridge keeps no state of its own: the state is the engine's         *)
(* contexts (allocation state and result segments), the JNI buffers the    *)
(* bridge holds, and the position of each thread inside fullTranscribe.    *)
(* Three history variables (call, ret, trace) record the bridge function   *)
(* most recently executed, what it returned to the caller, and the JNI     *)
(* and engine calls it made, in order.                                     *)
(***************************************************************************)
EXTENDS Integers, Sequences, FiniteSets, TLC

(* ---------------------------------------------------------------- bounds *)
MaxCtx == 2        \* addresses the engine can allocate a context at
MaxThreads == 2    \* caller threads that can be inside fullTranscribe
MaxSeg == 2        \* segments one run can produce

(* ------------------------------------------------------ program constants *)
NULL == 0
JNI_TRUE == 1
JNI_ABORT == 2
WHISPER_SAMPLING_GREEDY == 0

Ctx == 1..MaxCtx
Handle == 0..MaxCtx
Thread == 1..MaxThreads

(* ------------------------------------------------------------- strings   *)
(* A Java string is a sequence of UTF-16 code units.  A C string is the    *)
(* sequence of its bytes, terminating NUL included, so that every valid    *)
(* C string is non-empty and the empty sequence stands for the NULL        *)
(* pointer.                                                                *)
NullChars == <<>>

\* "auto", the literal of the strcmp
AutoLiteral == <<97, 117, 116, 111, 0>>

\* Modified UTF-8, as GetStringUTFChars produces it: U+0000 becomes C0 80,
\* U+0001..U+007F one byte each, and a NUL ends the buffer.
RECURSIVE EncodeModifiedUTF8(_)
EncodeModifiedUTF8(js) ==
    IF js = <<>> THEN <<0>>
    ELSE (IF Head(js) = 0 THEN <<192, 128>> ELSE <<Head(js)>>)
             \o EncodeModifiedUTF8(Tail(js))

\* What NewStringUTF reads back from a NUL-terminated buffer.
RECURSIVE DecodeModifiedUTF8(_)
DecodeModifiedUTF8(cs) ==
    IF Head(cs) = 0 THEN <<>>
    ELSE IF Head(cs) = 192 /\ Head(Tail(cs)) = 128
         THEN <<0>> \o DecodeModifiedUTF8(Tail(Tail(cs)))
         ELSE <<Head(cs)>> \o DecodeModifiedUTF8(Tail(cs))

\* GetStringUTFChars returns the encoded buffer, or NULL when the runtime
\* cannot allocate it (ok = FALSE).
GetStringUTFChars(jstr, ok) == IF ok THEN EncodeModifiedUTF8(jstr) ELSE NullChars

\* GetFloatArrayElements returns a pointer to the elements (TRUE) or NULL
\* (FALSE) when the runtime cannot pin or copy the array.
GetFloatArrayElements(ok) == ok

\* NewStringUTF builds the Java string the caller receives.
NewStringUTF(chars) ==
    IF chars = NullChars THEN [kind |-> "null", val |-> 0, text |-> << >>]
    ELSE [kind |-> "jstring", val |-> 0, text |-> DecodeModifiedUTF8(chars)]

\* strcmp: the difference of the first pair of bytes that differ, 0 if the
\* strings are equal up to and including the NUL.
RECURSIVE strcmp(_, _)
strcmp(s1, s2) ==
    IF Head(s1) # Head(s2) THEN Head(s1) - Head(s2)
    ELSE IF Head(s1) = 0 THEN 0
    ELSE strcmp(Tail(s1), Tail(s2))

(* ------------------------------------------------------------ inputs     *)
\* "en"
English == <<101, 110>>

\* "auto", "", "en", "Auto", "aut", "autox", "xauto", "auto\u0000x"
Languages ==
    { <<97, 117, 116, 111>>, <<>>, English, <<65, 117, 116, 111>>,
      <<97, 117, 116>>, <<97, 117, 116, 111, 120>>, <<120, 97, 117, 116, 111>>,
      <<97, 117, 116, 111, 0, 120>> }

\* "m" names a readable model file, "x" does not.
GoodPath == <<109>>
BadPath == <<120>>
ModelPaths == {GoodPath, BadPath}
ModelFiles == {EncodeModifiedUTF8(GoodPath)}

ThreadCounts == {1, 4}
JBooleans == {0, 1}

\* The language argument and whether GetStringUTFChars can encode it.
LanguageInputs == (Languages \X {TRUE}) \cup {<<English, FALSE>>}
Indices == (0 - 1)..MaxSeg

(* ------------------------------------------------------------ segments   *)
\* The k-th stretch of speech of a clip: its text ("a", "b", ...) and its
\* start and end in centiseconds.
Segment(k) == [text |-> <<96 + k, 0>>, t0 |-> 50 * (k - 1), t1 |-> 50 * k + 20]

\* The stretches of S in time order.
RECURSIVE InOrder(_)
InOrder(S) ==
    IF S = {} THEN << >>
    ELSE LET k == CHOOSE x \in S : \A y \in S : x <= y
         IN  <<Segment(k)>> \o InOrder(S \ {k})

\* The results one run of the engine can leave: up to MaxSeg segments,
\* with start times that do not decrease.
EngineOutputs == {InOrder(S) : S \in SUBSET (1..MaxSeg)}

\* Non-zero statuses of whisper_full.
EngineFailures == {0 - 1, 1}

\* What a read through a dangling or out-of-range pointer can yield.
GarbageInts == {0 - 1, 7}
GarbageChars == {NullChars, <<63, 0>>}

VARIABLES
    heap,      \* engine: allocation state of each context address
    segs,      \* engine: result segments of each context
    pc,        \* per thread: "idle" or inside "whisper_full"
    frame,     \* per thread: the locals of its fullTranscribe call
    pinned,    \* JNI: buffers obtained from the caller and not yet released
    crashed,   \* the process was killed by a fault
    call,      \* history: the bridge function most recently executed
    ret,       \* history: what it returned to the caller
    trace,     \* history: the JNI and engine calls it made, in order
    lastRun    \* history: per handle, the results its last completed run left

vars == <<heap, segs, pc, frame, pinned, crashed, call, ret, trace, lastRun>>

Eng == [heap |-> heap, segs |-> segs]

(* ------------------------------------------------------------ engine     *)
(* The whisper.cpp engine behind whisper.h.  Each function yields the set  *)
(* of outcomes the call can have on engine state E.  A call through a      *)
(* NULL, dangling or out-of-range pointer is undefined: it can fault,      *)
(* return garbage, or overwrite what now lives at that memory.             *)

Valid(E, c) == c \in Ctx /\ E.heap[c] = "live"

LiveCtx(E) == {c \in Ctx : E.heap[c] = "live"}

\* A write through a dangling pointer lands in some live context.
Corruptions(E) ==
    {[E EXCEPT !.segs[x] = g] : x \in LiveCtx(E), g \in EngineOutputs}

UndefinedWrite(E) ==
    {[crash |-> TRUE, eng |-> E]}
        \cup {[crash |-> FALSE, eng |-> x] : x \in {E} \cup Corruptions(E)}

UndefinedInt ==
    {[crash |-> TRUE, val |-> 0]}
        \cup {[crash |-> FALSE, val |-> g] : g \in GarbageInts}

UndefinedChars ==
    {[crash |-> TRUE, val |-> NullChars]}
        \cup {[crash |-> FALSE, val |-> g] : g \in GarbageChars}

InRange(E, c, i) == Valid(E, c) /\ 0 <= i /\ i < Len(E.segs[c])

\* Loads the model: a fresh context with no results, or NULL.
whisper_init_from_file_with_params(E, path) ==
    IF path = NullChars
    THEN {[crash |-> b, ctx |-> NULL, eng |-> E] : b \in BOOLEAN}
    ELSE {[crash |-> FALSE, ctx |-> NULL, eng |-> E]}
         \cup (IF path \in ModelFiles
               THEN {[crash |-> FALSE, ctx |-> c,
                      eng |-> [heap |-> [E.heap EXCEPT ![c] = "live"],
                               segs |-> [E.segs EXCEPT ![c] = <<>>]]] :
                        c \in Ctx \ LiveCtx(E)}
               ELSE {})

\* Frees everything the context owns; NULL is accepted.
whisper_free(E, c) ==
    IF c = NULL THEN {[crash |-> FALSE, eng |-> E]}
    ELSE IF Valid(E, c)
         THEN {[crash |-> FALSE,
                eng |-> [heap |-> [E.heap EXCEPT ![c] = "freed"],
                         segs |-> [E.segs EXCEPT ![c] = <<>>]]]}
         ELSE UndefinedWrite(E)

\* Clears the timing counters; the results are not touched.
whisper_reset_timings(E, c) ==
    IF Valid(E, c) THEN {[crash |-> FALSE, eng |-> E]} ELSE UndefinedWrite(E)

\* Logs the timing counters.
whisper_print_timings(E, c) == E

\* One run.  Status 0: the run's segments replace the context's results.
\* Non-zero status: the prior results are left untouched or cleared.
whisper_full(E, c, samples) ==
    LET done == {[crash |-> FALSE, status |-> 0,
                  eng |-> [E EXCEPT !.segs[c] = out]] : out \in EngineOutputs}
        failed == {[crash |-> FALSE, status |-> s, eng |-> e] :
                      s \in EngineFailures,
                      e \in {E, [E EXCEPT !.segs[c] = <<>>]}}
        fault == {[crash |-> TRUE, status |-> 0, eng |-> E]}
    IN  IF Valid(E, c)
        THEN done \cup failed \cup (IF samples THEN {} ELSE fault)
        ELSE fault \cup {[crash |-> FALSE, status |-> s, eng |-> e] :
                            s \in {0} \cup EngineFailures,
                            e \in {E} \cup Corruptions(E)}

whisper_full_n_segments(E, c) ==
    IF Valid(E, c) THEN {[crash |-> FALSE, val |-> Len(E.segs[c])]}
    ELSE UndefinedInt

whisper_full_get_segment_text(E, c, i) ==
    IF InRange(E, c, i) THEN {[crash |-> FALSE, val |-> E.segs[c][i + 1].text]}
    ELSE UndefinedChars

whisper_full_get_segment_t0(E, c, i) ==
    IF InRange(E, c, i) THEN {[crash |-> FALSE, val |-> E.segs[c][i + 1].t0]}
    ELSE UndefinedInt

whisper_full_get_segment_t1(E, c, i) ==
    IF InRange(E, c, i) THEN {[crash |-> FALSE, val |-> E.segs[c][i + 1].t1]}
    ELSE UndefinedInt

\* The two profiles whisper_full_default_params may start from: every
\* field the bridge assigns differs between them.
DefaultProfiles ==
    { [strategy |-> WHISPER_SAMPLING_GREEDY, n_threads |-> 0, offset_ms |-> 0,
       translate |-> FALSE, no_context |-> FALSE, no_timestamps |-> FALSE,
       single_segment |-> FALSE, print_special |-> FALSE,
       print_progress |-> FALSE, print_realtime |-> FALSE,
       print_timestamps |-> FALSE, language |-> NullChars],
      [strategy |-> WHISPER_SAMPLING_GREEDY, n_threads |-> 8, offset_ms |-> 100,
       translate |-> TRUE, no_context |-> TRUE, no_timestamps |-> TRUE,
       single_segment |-> TRUE, print_special |-> TRUE,
       print_progress |-> TRUE, print_realtime |-> TRUE,
       print_timestamps |-> TRUE, language |-> <<101, 110, 0>>] }

whisper_full_default_params(strategy, d) == [d EXCEPT !.strategy = strategy]

(* ------------------------------------------------------------ bridge     *)
\* Variant: one context shared by every handle.
ToContext_shared(context_ptr) == IF context_ptr = NULL THEN NULL ELSE 1

\* (struct whisper_context *) context_ptr
ToContext(context_ptr) == context_ptr

\* (jlong) context
ToHandle(context) == context

\* The caller's buffers the bridge obtains through JNI.
PathBuf == <<0, "model_path_str">>
LangBuf(t) == <<t, "language_str">>
AudioBuf(t) == <<t, "audio_data">>

\* One entry of the trace: a JNI call on a caller's buffer (with the pointer
\* obtained or given back, non-NULL or not, and the release mode), or an
\* engine call on a context (with the arguments that matter).
NoArgs ==
    [buf |-> <<0, "">>, ptr |-> FALSE, mode |-> 0, chars |-> NullChars,
     index |-> 0, params |-> CHOOSE d \in DefaultProfiles : d.n_threads = 0]

JniCall(fn, buf, ptr, mode) ==
    [to |-> "jni", fn |-> fn, ctx |-> NULL,
     arg |-> [NoArgs EXCEPT !.buf = buf, !.ptr = ptr, !.mode = mode]]

EngineCall(fn, c, arg) == [to |-> "engine", fn |-> fn, ctx |-> c, arg |-> arg]

\* A buffer is held from a successful Get until its Release.
Pin(P, buf, ptr) == IF ptr THEN P \cup {buf} ELSE P
Unpin(P, calls) == P \ {calls[k].arg.buf : k \in DOMAIN calls}

\* Variant: the path buffer is released on the success path only.
initContext_release_onSuccess(context, model_path_chars) ==
    IF context = NULL THEN << >>
    ELSE << JniCall("ReleaseStringUTFChars", PathBuf,
                    model_path_chars # NullChars, 0) >>

\* initContext: the release of the model path buffer.
initContext_release(context, model_path_chars) ==
    << JniCall("ReleaseStringUTFChars", PathBuf, model_path_chars # NullChars, 0) >>

\* Variant: no NULL check.
freeContext_calls_unchecked(context) ==
    << EngineCall("whisper_free", context, NoArgs) >>

\* freeContext: the engine is called for a non-NULL context only.
freeContext_calls(context) ==
    IF context # NULL THEN << EngineCall("whisper_free", context, NoArgs) >>
    ELSE << >>

\* strncmp over the first n bytes.
RECURSIVE strncmp(_, _, _)
strncmp(s1, s2, n) ==
    IF n = 0 THEN 0
    ELSE IF Head(s1) # Head(s2) THEN Head(s1) - Head(s2)
    ELSE IF Head(s1) = 0 THEN 0
    ELSE strncmp(Tail(s1), Tail(s2), n - 1)

\* Variant: only the first four bytes are compared with "auto".
ResolveLanguage_prefix(lang_chars) ==
    IF lang_chars # NullChars /\ strncmp(lang_chars, AutoLiteral, 4) # 0
    THEN lang_chars
    ELSE NullChars

\* fullTranscribe: "auto" and an unobtainable string select auto-detection
\* (NULL); any other string is handed to the engine as it is.
ResolveLanguage(lang_chars) ==
    IF lang_chars # NullChars /\ strcmp(lang_chars, AutoLiteral) # 0
    THEN lang_chars
    ELSE NullChars

\* Variant: single_segment is left at the engine's default.
fullTranscribe_params_noSingle(d, translate, lang_param, num_threads) ==
    [whisper_full_default_params(WHISPER_SAMPLING_GREEDY, d) EXCEPT
        !.print_realtime = FALSE,
        !.print_progress = FALSE,
        !.print_timestamps = FALSE,
        !.print_special = FALSE,
        !.no_timestamps = TRUE,
        !.translate = (translate = JNI_TRUE),
        !.language = lang_param,
        !.n_threads = num_threads,
        !.offset_ms = 0,
        !.no_context = TRUE]

\* fullTranscribe: the decoding parameters handed to whisper_full.
fullTranscribe_params(d, translate, lang_param, num_threads) ==
    [whisper_full_default_params(WHISPER_SAMPLING_GREEDY, d) EXCEPT
        !.print_realtime = FALSE,
        !.print_progress = FALSE,
        !.print_timestamps = FALSE,
        !.print_special = FALSE,
        !.no_timestamps = TRUE,
        !.translate = (translate = JNI_TRUE),
        !.language = lang_param,
        !.n_threads = num_threads,
        !.offset_ms = 0,
        !.no_context = TRUE,
        !.single_segment = TRUE]

\* Variant: a failed run frees the context.
fullTranscribe_status_free(status, context, E) ==
    IF status # 0
    THEN [eng |-> [heap |-> [E.heap EXCEPT ![context] = "freed"],
                   segs |-> [E.segs EXCEPT ![context] = << >>]],
          calls |-> << EngineCall("whisper_free", context, NoArgs) >>]
    ELSE [eng |-> whisper_print_timings(E, context),
          calls |-> << EngineCall("whisper_print_timings", context, NoArgs) >>]

\* fullTranscribe: what follows the return of whisper_full with `status`:
\* a warning is logged on failure, the timings are printed on success.
fullTranscribe_status(status, context, E) ==
    IF status # 0
    THEN [eng |-> E, calls |-> << >>]
    ELSE [eng |-> whisper_print_timings(E, context),
          calls |-> << EngineCall("whisper_print_timings", context, NoArgs) >>]

\* fullTranscribe: both buffers are released, the samples in discard mode.
fullTranscribe_release(t, lang_chars, audio_data_arr) ==
    << JniCall("ReleaseStringUTFChars", LangBuf(t), lang_chars, 0),
       JniCall("ReleaseFloatArrayElements", AudioBuf(t), audio_data_arr,
               JNI_ABORT) >>

\* The accessors: what each returns to the caller.
getTextSegmentCount_return(E, context) ==
    {[crash |-> o.crash, ret |-> [kind |-> "jint", val |-> o.val, text |-> << >>]] :
        o \in whisper_full_n_segments(E, context)}

getTextSegment_return(E, context, index) ==
    {[crash |-> o.crash, ret |-> NewStringUTF(o.val)] :
        o \in whisper_full_get_segment_text(E, context, index)}

getTextSegmentT0_return(E, context, index) ==
    {[crash |-> o.crash, ret |-> [kind |-> "jlong", val |-> o.val, text |-> << >>]] :
        o \in whisper_full_get_segment_t0(E, context, index)}

\* Variant: the end time is read with the start time's accessor.
getTextSegmentT1_return_t0(E, context, index) ==
    {[crash |-> o.crash, ret |-> [kind |-> "jlong", val |-> o.val, text |-> << >>]] :
        o \in whisper_full_get_segment_t0(E, context, index)}

getTextSegmentT1_return(E, context, index) ==
    {[crash |-> o.crash, ret |-> [kind |-> "jlong", val |-> o.val, text |-> << >>]] :
        o \in whisper_full_get_segment_t1(E, context, index)}

(* ------------------------------------------------------------ state      *)
NoFrame ==
    [context_ptr |-> NULL, context |-> NULL,
     lang_chars |-> FALSE, audio_data_arr |-> FALSE]

\* The arguments of a call, and for fullTranscribe what it found and got:
\* which buffers it obtained, the segments before the run, the status.
NoCallArgs ==
    [index |-> 0, path |-> << >>, t |-> 0, num_threads |-> 0,
     language_str |-> << >>, translate |-> 0, lang_chars |-> FALSE,
     audio_data_arr |-> FALSE, status |-> 0, prior |-> << >>]

Void == [kind |-> "void", val |-> 0, text |-> << >>]

Init ==
    /\ heap = [c \in Ctx |-> "unalloc"]
    /\ segs = [c \in Ctx |-> << >>]
    /\ pc = [t \in Thread |-> "idle"]
    /\ frame = [t \in Thread |-> NoFrame]
    /\ pinned = {}
    /\ crashed = FALSE
    /\ call = [op |-> "none", phase |-> "return", h |-> NULL, pre |-> "null",
               arg |-> NoCallArgs]
    /\ ret = Void
    /\ trace = << >>
    /\ lastRun = [c \in Ctx |-> << >>]

\* The state of handle h as the call found it.
Pre(h) == IF h \in Ctx THEN heap[h] ELSE "null"

\* The call came back to the caller with r, having made the calls tr.
Returned(op, phase, h, arg, r, tr) ==
    /\ call' = [op |-> op, phase |-> phase, h |-> h, pre |-> Pre(h), arg |-> arg]
    /\ ret' = r
    /\ trace' = tr
    /\ crashed' = FALSE

\* The process died inside the call, after the calls tr.
Faulted(op, h, arg, tr) ==
    /\ call' = [op |-> op, phase |-> "fault", h |-> h, pre |-> Pre(h), arg |-> arg]
    /\ ret' = [kind |-> "none", val |-> 0, text |-> << >>]
    /\ trace' = tr
    /\ crashed' = TRUE

Forget(L, h) == IF h \in Ctx THEN [L EXCEPT ![h] = << >>] ELSE L

(* ------------------------------------------------------------ actions    *)
initContext(model_path_str, ok) ==
    /\ ~crashed
    /\ LET model_path_chars == GetStringUTFChars(model_path_str, ok)
           P1 == Pin(pinned, PathBuf, model_path_chars # NullChars)
           get == JniCall("GetStringUTFChars", PathBuf,
                          model_path_chars # NullChars, 0)
       IN  \E o \in whisper_init_from_file_with_params(Eng, model_path_chars) :
             LET load == EngineCall("whisper_init_from_file_with_params", o.ctx,
                                    [NoArgs EXCEPT !.chars = model_path_chars])
                 rel == initContext_release(o.ctx, model_path_chars)
             IN  IF o.crash
                 THEN /\ Faulted("initContext", NULL,
                                 [NoCallArgs EXCEPT !.path = model_path_str],
                                 <<get, load>>)
                      /\ pinned' = P1
                      /\ UNCHANGED <<heap, segs, pc, frame, lastRun>>
                 ELSE /\ heap' = o.eng.heap
                      /\ segs' = o.eng.segs
                      /\ pinned' = Unpin(P1, rel)
                      /\ lastRun' = Forget(lastRun, ToHandle(o.ctx))
                      /\ Returned("initContext", "return", ToHandle(o.ctx),
                                  [NoCallArgs EXCEPT !.path = model_path_str],
                                  [kind |-> "jlong", val |-> ToHandle(o.ctx),
                                   text |-> << >>],
                                  <<get, load>> \o rel)
                      /\ UNCHANGED <<pc, frame>>

freeContext(context_ptr) ==
    /\ ~crashed
    /\ LET context == ToContext(context_ptr)
           calls == freeContext_calls(context)
       IN  IF Len(calls) = 0
           THEN /\ Returned("freeContext", "return", context_ptr, NoCallArgs,
                            Void, calls)
                /\ UNCHANGED <<heap, segs, pc, frame, pinned, lastRun>>
           ELSE \E o \in whisper_free(Eng, calls[1].ctx) :
                  IF o.crash
                  THEN /\ Faulted("freeContext", context_ptr, NoCallArgs, calls)
                       /\ UNCHANGED <<heap, segs, pc, frame, pinned, lastRun>>
                  ELSE /\ heap' = o.eng.heap
                       /\ segs' = o.eng.segs
                       /\ lastRun' = Forget(lastRun, context_ptr)
                       /\ Returned("freeContext", "return", context_ptr,
                                   NoCallArgs, Void, calls)
                       /\ UNCHANGED <<pc, frame, pinned>>

\* fullTranscribe up to the call of whisper_full.
fullTranscribe_Begin(t, context_ptr, num_threads, audio_ok, language_str, lang_ok, translate, d) ==
    /\ ~crashed
    /\ pc[t] = "idle"
    /\ LET context == ToContext(context_ptr)
           audio_data_arr == GetFloatArrayElements(audio_ok)
           lang_chars == GetStringUTFChars(language_str, lang_ok)
           lang_param == ResolveLanguage(lang_chars)
           params == fullTranscribe_params(d, translate, lang_param, num_threads)
           P1 == Pin(Pin(pinned, AudioBuf(t), audio_data_arr),
                     LangBuf(t), lang_chars # NullChars)
           gets == << JniCall("GetFloatArrayElements", AudioBuf(t),
                              audio_data_arr, 0),
                      JniCall("GetStringUTFChars", LangBuf(t),
                              lang_chars # NullChars, 0),
                      EngineCall("whisper_reset_timings", context, NoArgs) >>
           arg == [NoCallArgs EXCEPT
                      !.t = t, !.num_threads = num_threads,
                      !.language_str = language_str, !.translate = translate,
                      !.lang_chars = lang_chars # NullChars,
                      !.audio_data_arr = audio_data_arr]
       IN  \E o \in whisper_reset_timings(Eng, context) :
             IF o.crash
             THEN /\ Faulted("fullTranscribe", context_ptr, arg, gets)
                  /\ pinned' = P1
                  /\ UNCHANGED <<heap, segs, pc, frame, lastRun>>
             ELSE /\ heap' = o.eng.heap
                  /\ segs' = o.eng.segs
                  /\ pinned' = P1
                  /\ pc' = [pc EXCEPT ![t] = "whisper_full"]
                  /\ frame' = [frame EXCEPT ![t] =
                                  [context_ptr |-> context_ptr,
                                   context |-> context,
                                   lang_chars |-> lang_chars # NullChars,
                                   audio_data_arr |-> audio_data_arr]]
                  /\ Returned("fullTranscribe", "enter", context_ptr, arg, Void,
                              Append(gets,
                                     EngineCall("whisper_full", context,
                                                [NoArgs EXCEPT
                                                    !.params = params,
                                                    !.ptr = audio_data_arr])))
                  /\ UNCHANGED lastRun

\* whisper_full returns, and fullTranscribe runs to its end.
fullTranscribe_End(t) ==
    /\ ~crashed
    /\ pc[t] = "whisper_full"
    /\ LET f == frame[t]
           prior == IF f.context \in Ctx THEN segs[f.context] ELSE << >>
           arg0 == [NoCallArgs EXCEPT
                       !.t = t, !.lang_chars = f.lang_chars,
                       !.audio_data_arr = f.audio_data_arr, !.prior = prior]
       IN  \E o \in whisper_full(Eng, f.context, f.audio_data_arr) :
             IF o.crash
             THEN /\ Faulted("fullTranscribe", f.context_ptr, arg0, << >>)
                  /\ UNCHANGED <<heap, segs, pc, frame, pinned, lastRun>>
             ELSE LET s == fullTranscribe_status(o.status, f.context, o.eng)
                      rel == fullTranscribe_release(t, f.lang_chars,
                                                    f.audio_data_arr)
                  IN  /\ heap' = s.eng.heap
                      /\ segs' = s.eng.segs
                      /\ pinned' = Unpin(pinned, rel)
                      /\ pc' = [pc EXCEPT ![t] = "idle"]
                      /\ frame' = [frame EXCEPT ![t] = NoFrame]
                      /\ lastRun' =
                            IF f.context_ptr \in Ctx /\ f.context \in Ctx
                            THEN [lastRun EXCEPT ![f.context_ptr] =
                                                    o.eng.segs[f.context]]
                            ELSE lastRun
                      /\ Returned("fullTranscribe", "return", f.context_ptr,
                                  [arg0 EXCEPT !.status = o.status], Void,
                                  s.calls \o rel)

\* An accessor: one engine call, its value handed back.
Accessor(op, context_ptr, index, fn, outcomes) ==
    /\ ~crashed
    /\ \E o \in outcomes :
         LET tr == << EngineCall(fn, ToContext(context_ptr),
                                 [NoArgs EXCEPT !.index = index]) >>
             arg == [NoCallArgs EXCEPT !.index = index]
         IN  IF o.crash
             THEN Faulted(op, context_ptr, arg, tr)
             ELSE Returned(op, "return", context_ptr, arg, o.ret, tr)
    /\ UNCHANGED <<heap, segs, pc, frame, pinned, lastRun>>

getTextSegmentCount(context_ptr) ==
    Accessor("getTextSegmentCount", context_ptr, 0, "whisper_full_n_segments",
             getTextSegmentCount_return(Eng, ToContext(context_ptr)))

getTextSegment(context_ptr, index) ==
    Accessor("getTextSegment", context_ptr, index,
             "whisper_full_get_segment_text",
             getTextSegment_return(Eng, ToContext(context_ptr), index))

getTextSegmentT0(context_ptr, index) ==
    Accessor("getTextSegmentT0", context_ptr, index,
             "whisper_full_get_segment_t0",
             getTextSegmentT0_return(Eng, ToContext(context_ptr), index))

getTextSegmentT1(context_ptr, index) ==
    Accessor("getTextSegmentT1", context_ptr, index,
             "whisper_full_get_segment_t1",
             getTextSegmentT1_return(Eng, ToContext(context_ptr), index))

(* ------------------------------------------------------------ callers    *)
\* A run on handle h is in progress.
Running(h) == \E t \in Thread : pc[t] = "whisper_full" /\ frame[t].context_ptr = h

\* The caller keeps to the contract: it uses a handle it created and has
\* not released, and lets no call overlap a run on the same handle.
CallerOwns(h) == h \in Ctx /\ heap[h] = "live" /\ ~Running(h)

IndexInRange(h, i) == 0 <= i /\ i < Len(segs[h])

\* The caller's threads are interchangeable: the first idle one calls.
FirstIdle(t) == pc[t] = "idle" /\ \A u \in Thread : u < t => pc[u] # "idle"

\* The lifecycle: sessions are created, run, read and released by callers
\* that keep to the contract.  One set of run arguments stands for all (the
\* engine's outcome does not depend on them); every Get can fail.
Next ==
    \/ \E p \in ModelPaths, ok \in BOOLEAN : initContext(p, ok)
    \/ \E h \in Handle : (h = NULL \/ CallerOwns(h)) /\ freeContext(h)
    \/ \E t \in Thread, h \in Handle, a \in BOOLEAN, lo \in BOOLEAN,
          d \in DefaultProfiles :
            /\ CallerOwns(h)
            /\ FirstIdle(t)
            /\ fullTranscribe_Begin(t, h, 1, a, English, lo, JNI_TRUE, d)
    \/ \E t \in Thread : fullTranscribe_End(t)
    \/ \E h \in Handle : CallerOwns(h) /\ getTextSegmentCount(h)
    \/ \E h \in Handle, i \in Indices :
            CallerOwns(h) /\ IndexInRange(h, i) /\ getTextSegment(h, i)
    \/ \E h \in Handle, i \in Indices :
            CallerOwns(h) /\ IndexInRange(h, i) /\ getTextSegmentT0(h, i)
    \/ \E h \in Handle, i \in Indices :
            CallerOwns(h) /\ IndexInRange(h, i) /\ getTextSegmentT1(h, i)

Spec == Init /\ [][Next]_vars

\* The arguments of a run: every thread count, language and translate flag,
\* on sessions that may hold an earlier run's results, one run at a time.
NextArguments ==
    \/ initContext(GoodPath, TRUE)
    \/ \E t \in Thread, h \in Handle, n \in ThreadCounts,
          l \in LanguageInputs, tr \in JBooleans, d \in DefaultProfiles :
            /\ CallerOwns(h)
            /\ \A u \in Thread : pc[u] = "idle"
            /\ FirstIdle(t)
            /\ fullTranscribe_Begin(t, h, n, TRUE, l[1], l[2], tr, d)
    \/ \E t \in Thread : fullTranscribe_End(t)

SpecArguments == Init /\ [][NextArguments]_vars

\* Any caller: every handle value, every index, at any time.
NextAnyCaller ==
    \/ \E p \in ModelPaths, ok \in BOOLEAN : initContext(p, ok)
    \/ \E h \in Handle : freeContext(h)
    \/ \E t \in Thread, h \in Handle, d \in DefaultProfiles :
            /\ ~Running(h)
            /\ FirstIdle(t)
            /\ fullTranscribe_Begin(t, h, 1, TRUE, English, TRUE, JNI_TRUE, d)
    \/ \E t \in Thread : fullTranscribe_End(t)
    \/ \E h \in Handle : ~Running(h) /\ getTextSegmentCount(h)
    \/ \E h \in Handle, i \in Indices : ~Running(h) /\ getTextSegment(h, i)
    \/ \E h \in Handle, i \in Indices : ~Running(h) /\ getTextSegmentT0(h, i)
    \/ \E h \in Handle, i \in Indices : ~Running(h) /\ getTextSegmentT1(h, i)

SpecAnyCaller == Init /\ [][NextAnyCaller]_vars

(* ------------------------------------------------------------ claims     *)
HandleOps ==
    {"freeContext", "fullTranscribe", "getTextSegmentCount", "getTextSegment",
     "getTextSegmentT0", "getTextSegmentT1"}

IndexOps == {"getTextSegment", "getTextSegmentT0", "getTextSegmentT1"}

\* The argument of the call of engine or JNI function fn in the trace.
TraceArg(fn) == trace[CHOOSE k \in DOMAIN trace : trace[k].fn = fn].arg

TraceCount(fn) == Cardinality({k \in DOMAIN trace : trace[k].fn = fn})

NoEngineCall == \A k \in DOMAIN trace : trace[k].to # "engine"

\* On engine state E the accessors hand the caller exactly the results L
\* for handle h: the count, and per index the text, the start and the end.
Reads(E, L, h) ==
    /\ getTextSegmentCount_return(E, ToContext(h))
         = {[crash |-> FALSE,
             ret |-> [kind |-> "jint", val |-> Len(L), text |-> << >>]]}
    /\ \A i \in 1..Len(L) :
         /\ \A o \in getTextSegment_return(E, ToContext(h), i - 1) :
              /\ ~o.crash
              /\ o.ret.kind = "jstring"
              /\ EncodeModifiedUTF8(o.ret.text) = L[i].text
         /\ getTextSegmentT0_return(E, ToContext(h), i - 1)
              = {[crash |-> FALSE,
                  ret |-> [kind |-> "jlong", val |-> L[i].t0, text |-> << >>]]}
         /\ getTextSegmentT1_return(E, ToContext(h), i - 1)
              = {[crash |-> FALSE,
                  ret |-> [kind |-> "jlong", val |-> L[i].t1, text |-> << >>]]}

\* C1: once a non-null handle has been released, every later call that uses
\* it (an accessor, fullTranscribe, a second freeContext) gives the caller an
\* InvalidHandle error, and the engine is not called with the released handle.
C1_ReleasedHandleRejected ==
    (call.op \in HandleOps /\ call.pre = "freed") =>
        /\ ret.kind = "InvalidHandle"
        /\ \A k \in DOMAIN trace :
              trace[k].to = "engine" => trace[k].ctx # call.h

\* C2: whenever no run is in progress on a handle the caller holds, the
\* segment count and the text, start and end at every index that the
\* accessors return are those the most recent completed run on that handle
\* left (none before any run); a second run's results replace the first's.
C2_AccessorsReflectLastRun ==
    /\ \A h \in Ctx : CallerOwns(h) => Reads(Eng, lastRun[h], h)
    /\ (call.op = "getTextSegmentCount" /\ call.phase = "return") =>
          (ret.kind = "jint" /\ ret.val = Len(lastRun[call.h]))
    /\ (call.op = "getTextSegment" /\ call.phase = "return") =>
          /\ ret.kind = "jstring"
          /\ EncodeModifiedUTF8(ret.text)
                = lastRun[call.h][call.arg.index + 1].text
    /\ (call.op = "getTextSegmentT0" /\ call.phase = "return") =>
          (ret.kind = "jlong" /\ ret.val = lastRun[call.h][call.arg.index + 1].t0)
    /\ (call.op = "getTextSegmentT1" /\ call.phase = "return") =>
          (ret.kind = "jlong" /\ ret.val = lastRun[call.h][call.arg.index + 1].t1)

\* C2 witness: a second successful run has just replaced a first run's two
\* segments by one different segment.
C2_Witness ==
    /\ call.op = "fullTranscribe" /\ call.phase = "return"
    /\ call.arg.status = 0
    /\ Len(call.arg.prior) = 2
    /\ Len(segs[call.h]) = 1
    /\ segs[call.h][1] # call.arg.prior[1]

\* C3: when whisper_full returns a non-zero status, fullTranscribe returns
\* normally, the handle stays usable, the segments are the prior run's or
\* none, and the bridge calls nothing of the engine on that path.
C3_FailedRunIsQuiet ==
    (call.op = "fullTranscribe" /\ call.phase = "return"
        /\ call.arg.status # 0) =>
        /\ ret = Void
        /\ ~crashed
        /\ heap[call.h] = "live"
        /\ pc[call.arg.t] = "idle"
        /\ ~Running(call.h)
        /\ segs[call.h] \in {call.arg.prior, << >>}
        /\ NoEngineCall

\* C3 witness: a run failed on a handle that held results.
C3_Witness ==
    /\ call.op = "fullTranscribe" /\ call.phase = "return"
    /\ call.arg.status # 0
    /\ call.arg.prior # << >>
    /\ segs[call.h] = call.arg.prior

\* C4: initContext returns a non-null handle exactly when the engine loaded
\* the model; when it returns 0 no session was created and no buffer is left
\* held, so a failing create changes neither the sessions nor the buffers.
C4_CreateAllOrNothing ==
    [][ (call'.op = "initContext" /\ call'.phase = "return") =>
          /\ ret'.kind = "jlong"
          /\ (ret'.val # NULL) <=>
                (TraceArg("whisper_init_from_file_with_params")'.chars \in ModelFiles
                    /\ \E c \in Ctx : heap[c] # "live" /\ heap'[c] = "live")
          /\ ret'.val # NULL => (heap[ret'.val] # "live" /\ heap'[ret'.val] = "live")
          /\ ret'.val = NULL => (heap' = heap /\ segs' = segs)
          /\ pinned' = pinned
          /\ PathBuf \notin pinned' ]_vars

\* C4 witness: a create failed while another session was live.
C4_Witness ==
    /\ call.op = "initContext" /\ call.phase = "return"
    /\ ret.val = NULL
    /\ \E c \in Ctx : heap[c] = "live" /\ segs[c] # << >>

\* C5: an index-taking accessor called on a live handle with an index
\* outside [0, count) fails with IndexOutOfRange and reads nothing from the
\* engine.
C5_IndexChecked ==
    (call.op \in IndexOps /\ call.pre = "live"
        /\ ~(0 <= call.arg.index /\ call.arg.index < Len(segs[call.h]))) =>
        (ret.kind = "IndexOutOfRange" /\ NoEngineCall)

\* C6: freeContext(0) calls nothing and changes nothing; freeContext on a
\* live handle calls whisper_free once, for that handle, and changes the
\* state of no other session.
C6_FreeNullOrOnce ==
    [][ (call'.op = "freeContext" /\ call'.phase = "return") =>
          IF call'.h = NULL
          THEN /\ Len(trace') = 0
               /\ UNCHANGED <<heap, segs, pc, frame, pinned, lastRun>>
          ELSE heap[call'.h] = "live" =>
                 /\ Len(trace') = 1
                 /\ trace'[1].fn = "whisper_free"
                 /\ trace'[1].ctx = call'.h
                 /\ heap'[call'.h] = "freed"
                 /\ \A c \in Ctx \ {call'.h} :
                       heap'[c] = heap[c] /\ segs'[c] = segs[c]
                 /\ UNCHANGED <<pc, frame, pinned>> ]_vars

\* C6 witness: a live handle was released while another session held results.
C6_Witness ==
    /\ call.op = "freeContext" /\ call.phase = "return"
    /\ call.h # NULL /\ call.pre = "live"
    /\ \E c \in Ctx \ {call.h} : heap[c] = "live" /\ segs[c] # << >>

\* C7: the language handed to whisper_full is NULL exactly when the caller's
\* string is "auto" or could not be obtained; any other string reaches the
\* engine unchanged.
C7_LanguageResolution ==
    (call.op = "fullTranscribe" /\ call.phase = "enter") =>
        LET language == TraceArg("whisper_full").params.language
        IN  /\ (language = NullChars) <=>
                  (call.arg.language_str = <<97, 117, 116, 111>>
                      \/ ~call.arg.lang_chars)
            /\ language # NullChars =>
                  /\ language = EncodeModifiedUTF8(call.arg.language_str)
                  /\ DecodeModifiedUTF8(language) = call.arg.language_str

\* C7 witness: "autox", which only begins with "auto", was passed on.
C7_Witness ==
    /\ call.op = "fullTranscribe" /\ call.phase = "enter"
    /\ call.arg.language_str = <<97, 117, 116, 111, 120>>
    /\ TraceArg("whisper_full").params.language = <<97, 117, 116, 111, 120, 0>>

\* C8: every call of whisper_full gets the same decoding profile (greedy,
\* single segment, no timestamps, no context, offset 0, nothing printed);
\* only n_threads, language and translate follow the caller's arguments.
C8_FixedProfile ==
    (call.op = "fullTranscribe" /\ call.phase = "enter") =>
        LET p == TraceArg("whisper_full").params
        IN  /\ p.strategy = WHISPER_SAMPLING_GREEDY
            /\ p.single_segment /\ p.no_timestamps /\ p.no_context
            /\ p.offset_ms = 0
            /\ ~p.print_realtime /\ ~p.print_progress
            /\ ~p.print_timestamps /\ ~p.print_special
            /\ p.n_threads = call.arg.num_threads
            /\ p.translate <=> (call.arg.translate = JNI_TRUE)

\* C8 witness: a run with 4 threads and translation on a handle that
\* already holds an earlier run's results.
C8_Witness ==
    /\ call.op = "fullTranscribe" /\ call.phase = "enter"
    /\ call.arg.num_threads = 4 /\ call.arg.translate = JNI_TRUE
    /\ lastRun[call.h] # << >>

\* C9: a call on handle A changes neither the lifecycle state nor the
\* segments of any other handle B, and after it the accessors on every other
\* live handle B still return B's most recent completed run, also while A
\* is running and after A was released.
C9_HandlesIndependent ==
    [][ (call'.op \in HandleOps /\ call'.phase \in {"enter", "return"}) =>
          \A b \in Ctx \ {call'.h} :
             /\ heap'[b] = heap[b]
             /\ segs'[b] = segs[b]
             /\ lastRun'[b] = lastRun[b]
             /\ Running(b)' <=> Running(b)
             /\ CallerOwns(b) => Reads(Eng', lastRun[b], b) ]_vars

\* C9 witness: an accessor returned on one handle while a run was in
\* progress on another.
C9_Witness ==
    /\ call.op = "getTextSegment" /\ call.phase = "return"
    /\ \E t \in Thread : pc[t] = "whisper_full" /\ frame[t].context_ptr # call.h

\* C10: in fullTranscribe each buffer obtained from the caller is held while
\* the engine runs and is released once, after whisper_full has returned; a
\* buffer is released only if it was obtained; the samples are released with
\* JNI_ABORT.
C10_BuffersReleasedIfObtained ==
    /\ \A t \in Thread : pc[t] = "whisper_full" =>
          /\ frame[t].lang_chars => LangBuf(t) \in pinned
          /\ frame[t].audio_data_arr => AudioBuf(t) \in pinned
    /\ (call.op = "fullTranscribe" /\ call.phase = "enter") =>
          /\ TraceCount("ReleaseStringUTFChars") = 0
          /\ TraceCount("ReleaseFloatArrayElements") = 0
    /\ (call.op = "fullTranscribe" /\ call.phase = "return") =>
          /\ TraceCount("ReleaseStringUTFChars")
                = (IF call.arg.lang_chars THEN 1 ELSE 0)
          /\ TraceCount("ReleaseFloatArrayElements")
                = (IF call.arg.audio_data_arr THEN 1 ELSE 0)
          /\ \A k \in DOMAIN trace :
                trace[k].fn = "ReleaseFloatArrayElements" =>
                    trace[k].arg.mode = JNI_ABORT
          /\ LangBuf(call.arg.t) \notin pinned
          /\ AudioBuf(call.arg.t) \notin pinned

====
